---- MODULE Spec2Model ----
(***************************************************************************)
(* Wiz GraphQL proxy (wiz-graphql-proxy.py): a Flask service that caches   *)
(* an OAuth client-credentials token in the process-wide dict token_cache  *)
(* and forwards GraphQL requests to the upstream API.                      *)
(*                                                                         *)
(* Flask's server handles each inbound request on its own thread, so the   *)
(* handlers below interleave at the granularity of the reads and writes of *)
(* token_cache (one dict access is atomic, a sequence of them is not).     *)
(* Time is the value datetime.now() returns, sampled at the instants of    *)
(* Instants.  A token is the record of what the identity provider issued: *)
(* its serial number, its issuance time and the expires_in reported with   *)
(* it (RFC 6749 access tokens are non-empty strings, so every token is     *)
(* truthy in Python).                                                      *)
(***************************************************************************)
EXTENDS Integers, Sequences, FiniteSets, TLC

\* ---------------------------------------------------------------- bounds
NumHandlers == 2
MaxRequests == 3
MaxTick == 1

\* ------------------------------------------------------ program constants
MARGIN == 60
DEFAULT_EXPIRES_IN == 3600

\* Python's None and a present value, for the optional fields of the model.
None == << >>
Some(x) == << x >>
Val(o) == o[1]

Handlers == 1 .. NumHandlers

\* Instants at which the clock is sampled: start-up and the ticks after it.
Instants == 0 .. MaxTick

\* expires_in as the identity provider may report it.
Lifetimes == {60, 61}
ExpiresInValues ==
    {[kind |-> "absent", val |-> 0], [kind |-> "str", val |-> 0]}
        \cup {[kind |-> "int", val |-> l] : l \in Lifetimes}

\* Ways the exchange with the identity provider fails before line 62.
IdpFailures == {"timeout", "http_401", "not_json", "no_access_token"}

\* Upstream answers: any HTTP status with any body is an answer.
UpstreamResponses ==
    {[status |-> 200, body |-> "{data}"],
     [status |-> 200, body |-> "{errors}"],
     [status |-> 200, body |-> "<html>"],
     [status |-> 400, body |-> "{errors}"],
     [status |-> 500, body |-> "<html>"]}

\* Inbound requests the routes of the application accept.
Requests ==
    {[route |-> "/graphql", method |-> "POST"],
     [route |-> "/introspection", method |-> "POST"],
     [route |-> "/graphql", method |-> "OPTIONS"],
     [route |-> "/introspection", method |-> "OPTIONS"],
     [route |-> "/health", method |-> "GET"]}

\* Request bodies, as request.get_json() sees them at line 98.
Bodies == {"json", "not_json"}

\* What os.environ.get returns for a credential: None when the variable is
\* unset, the empty string when it is set to nothing, its value otherwise.
CredentialValues == {"None", "", "set"}

ACAO == "Access-Control-Allow-Origin: *"
ACAM == "Access-Control-Allow-Methods: POST, OPTIONS"
ACAH == "Access-Control-Allow-Headers: Content-Type, Authorization"
CTJSON == "Content-Type: application/json"

VARIABLES
    WIZ_CLIENT_ID,      \* line 22
    WIZ_CLIENT_SECRET,  \* line 23
    proc,         \* the process: where __main__ is, and its exit status
    now,          \* datetime.now()
    token_cache,  \* the global dict, with the identity of the token each field was written for
    issued,       \* identity provider: number of tokens it has issued
    started,      \* number of inbound requests received
    pc,           \* per handler thread: the line it is about to execute
    req,          \* per handler: the inbound request
    loc,          \* per handler: the locals of get_wiz_token and proxy_graphql
    resp          \* per handler: the HTTP response it returned

vars ==
    << WIZ_CLIENT_ID, WIZ_CLIENT_SECRET, proc,
       now, token_cache, issued, started, pc, req, loc, resp >>

NoLocals ==
    [token_data |-> None,   \* get_wiz_token's token_data
     body       |-> None,   \* the inbound body, once line 98 has read it
     bearer     |-> None,   \* Authorization bearer of the call in flight upstream
     sent_body  |-> None,   \* body of the call in flight upstream
     up         |-> None,   \* the upstream response
     seen_for   |-> None,   \* on a cache hit: the token the expiry compared at line 38 was computed for
     idp_error  |-> None,   \* how the exchange of lines 46-62 failed, if it did
     idp_calls  |-> 0,      \* requests.post calls of line 46 made for this request
     up_calls   |-> 0]      \* requests.post calls of line 103 made for this request

NoRequest == [route |-> "", method |-> ""]
NoResponse == [status |-> 0, body |-> "", headers |-> {}]

\* ------------------------------------------------------------- responses
\* lines 81-85
PreflightResp == [status |-> 200, body |-> "", headers |-> {ACAO, ACAM, ACAH}]

\* Flask's automatic OPTIONS answer for a route that does not list OPTIONS.
AutoOptionsResp == [status |-> 200, body |-> "", headers |-> {"Allow: OPTIONS, POST"}]

\* line 127
HealthResp == [status |-> 200, body |-> "{status: healthy}", headers |-> {CTJSON}]

\* Mutant of lines 111-118: an upstream 5xx is reported as 502 with the
\* proxy's own body.
RelayResp_BadGateway(up) ==
    IF up.status >= 500
    THEN [status |-> 502, body |-> "{error}", headers |-> {CTJSON, ACAO}]
    ELSE [status |-> up.status, body |-> up.body, headers |-> {CTJSON, ACAO}]

\* lines 111-118
RelayResp(up) == [status |-> up.status, body |-> up.body, headers |-> {CTJSON, ACAO}]

\* str(e) inside the JSON object of line 122
ErrorBody(e) ==
    CASE e = "timeout" -> "{error: timed out}"
      [] e = "http_401" -> "{error: 401 Client Error}"
      [] e = "not_json" -> "{error: Expecting value}"
      [] e = "no_access_token" -> "{error: 'access_token'}"
      [] e = "bad_expires_in" -> "{error: unsupported operand}"
      [] e = "bad_request" -> "{error: 400 Bad Request}"
      [] e = "upstream_timeout" -> "{error: upstream timed out}"
      [] OTHER -> "{error}"

\* line 122: jsonify(...), 500
ErrorResp(e) == [status |-> 500, body |-> ErrorBody(e), headers |-> {CTJSON}]

\* ----------------------------------------------------------------- Init
\* Mutant of lines 27-30: the cache starts with a placeholder token that
\* never expires.
EmptyCache_Placeholder ==
    [access_token |-> Some([id |-> 0, at |-> 0, expires_in |-> [kind |-> "absent", val |-> 0]]),
     expires_at |-> Some(DEFAULT_EXPIRES_IN),
     exp_for |-> Some(0),
     set_at |-> Some(0)]

\* lines 27-30
EmptyCache == [access_token |-> None, expires_at |-> None, exp_for |-> None, set_at |-> None]

Init ==
    /\ WIZ_CLIENT_ID \in CredentialValues
    /\ WIZ_CLIENT_SECRET \in CredentialValues
    /\ proc = [state |-> "starting", exit_status |-> None]
    /\ now = 0
    /\ token_cache = EmptyCache
    /\ issued = 0
    /\ started = 0
    /\ pc = [h \in Handlers |-> "idle"]
    /\ req = [h \in Handlers |-> NoRequest]
    /\ loc = [h \in Handlers |-> NoLocals]
    /\ resp = [h \in Handlers |-> NoResponse]

\* --------------------------------------------------------------- __main__
\* Python's truth value of a credential: None and '' are falsy.
Truthy(c) == c \notin {"None", ""}

\* Mutant of lines 135-137: no check of the credentials before app.run.
Startup_NoGate ==
    /\ proc.state = "starting"
    /\ proc' = [proc EXCEPT !.state = "serving"]
    /\ UNCHANGED << WIZ_CLIENT_ID, WIZ_CLIENT_SECRET,
                    now, token_cache, issued, started, pc, req, loc, resp >>

\* lines 134-139: exit(1) unless both credentials are set, else app.run
Startup ==
    /\ proc.state = "starting"
    /\ IF ~ Truthy(WIZ_CLIENT_ID) \/ ~ Truthy(WIZ_CLIENT_SECRET)
       THEN proc' = [state |-> "exited", exit_status |-> Some(1)]
       ELSE proc' = [proc EXCEPT !.state = "serving"]
    /\ UNCHANGED << WIZ_CLIENT_ID, WIZ_CLIENT_SECRET,
                    now, token_cache, issued, started, pc, req, loc, resp >>

\* line 139: app.run serves requests; the configuration is read once, at
\* import (lines 20-24)
Serving ==
    /\ proc.state = "serving"
    /\ UNCHANGED << WIZ_CLIENT_ID, WIZ_CLIENT_SECRET, proc >>

\* ----------------------------------------------------------------- clock
Tick ==
    /\ Serving
    /\ \E t \in Instants : t > now /\ now' = t
    /\ UNCHANGED << token_cache, issued, started, pc, req, loc, resp >>

\* --------------------------------------------------------------- helpers
\* Mutant of line 38: the comparison reversed.
IsFresh_Reversed(t, expires_at) == t > expires_at

\* line 38: the cached token is valid only strictly before expires_at
IsFresh(t, expires_at) == t < expires_at

\* Mutant of line 65: the default lifetime is not reduced by the margin.
ExpiresAt_RawDefault(t, x) ==
    t + (IF x.kind = "absent" THEN DEFAULT_EXPIRES_IN ELSE x.val - MARGIN)

\* lines 65-66: expires_at for a token whose expiry is set at time t
ExpiresAt(t, x) ==
    t + ((IF x.kind = "absent" THEN DEFAULT_EXPIRES_IN ELSE x.val) - MARGIN)

\* Mutant of lines 120-122: no except clause, the exception leaves the
\* handler without a response.
Fail_Uncaught(h, state, e) ==
    /\ pc' = [pc EXCEPT ![h] = "crashed"]
    /\ UNCHANGED resp

\* lines 120-122: the handler's except clause
Fail(h, state, e) ==
    /\ pc' = [pc EXCEPT ![h] = state]
    /\ resp' = [resp EXCEPT ![h] = ErrorResp(e)]

\* lines 42-58: the miss path sends the client-credentials request
CallIdp(h) ==
    /\ pc' = [pc EXCEPT ![h] = "await_idp"]
    /\ loc' = [loc EXCEPT ![h].idp_calls = @ + 1]

\* lines 89-108: with the token in hand, parse the body (get_json raises on
\* a body that is not JSON) and send it upstream with the bearer token
Forward(h, token) ==
    \E b \in Bodies :
        IF b = "not_json"
        THEN /\ Fail(h, "UpstreamFailed", "bad_request")
             /\ loc' = [loc EXCEPT ![h].body = Some(b), ![h].seen_for = None]
        ELSE /\ loc' = [loc EXCEPT ![h].body = Some(b),
                                   ![h].bearer = token,
                                   ![h].sent_body = Some(b),
                                   ![h].up_calls = @ + 1]
             /\ pc' = [pc EXCEPT ![h] = "await_up"]
             /\ UNCHANGED resp

\* --------------------------------------------------------------- routing
\* lines 75-80, 87-89, 129-132 and line 37, first operand: a POST enters
\* proxy_graphql, which calls get_wiz_token; a falsy access_token is a miss
ReceivePost(h) ==
    /\ Serving
    /\ pc[h] = "idle"
    /\ started < MaxRequests
    /\ \E r \in Requests :
        /\ r.method = "POST"
        /\ req' = [req EXCEPT ![h] = r]
    /\ started' = started + 1
    /\ IF token_cache.access_token = None
       THEN CallIdp(h)
       ELSE pc' = [pc EXCEPT ![h] = "L38"] /\ UNCHANGED loc
    /\ UNCHANGED << now, token_cache, issued, resp >>

\* Mutant of lines 80-85: no preflight branch, OPTIONS runs the POST path.
Preflight_Resolves(h) ==
    /\ Serving
    /\ pc[h] = "idle"
    /\ started < MaxRequests
    /\ req' = [req EXCEPT ![h] = [route |-> "/graphql", method |-> "OPTIONS"]]
    /\ started' = started + 1
    /\ IF token_cache.access_token = None
       THEN CallIdp(h)
       ELSE pc' = [pc EXCEPT ![h] = "L38"] /\ UNCHANGED loc
    /\ UNCHANGED << now, token_cache, issued, resp >>

\* lines 80-85: CORS preflight on /graphql
Preflight(h) ==
    /\ Serving
    /\ pc[h] = "idle"
    /\ started < MaxRequests
    /\ req' = [req EXCEPT ![h] = [route |-> "/graphql", method |-> "OPTIONS"]]
    /\ started' = started + 1
    /\ pc' = [pc EXCEPT ![h] = "Preflight"]
    /\ loc' = [loc EXCEPT ![h] = NoLocals]
    /\ resp' = [resp EXCEPT ![h] = PreflightResp]
    /\ UNCHANGED << now, token_cache, issued >>

\* line 129: /introspection lists POST only, OPTIONS never reaches the view
AutoOptions(h) ==
    /\ Serving
    /\ pc[h] = "idle"
    /\ started < MaxRequests
    /\ req' = [req EXCEPT ![h] = [route |-> "/introspection", method |-> "OPTIONS"]]
    /\ started' = started + 1
    /\ pc' = [pc EXCEPT ![h] = "AutoOptions"]
    /\ loc' = [loc EXCEPT ![h] = NoLocals]
    /\ resp' = [resp EXCEPT ![h] = AutoOptionsResp]
    /\ UNCHANGED << now, token_cache, issued >>

\* Mutant of lines 124-127: the probe asks get_wiz_token for a token first.
Health_Deep(h) ==
    /\ Serving
    /\ pc[h] = "idle"
    /\ started < MaxRequests
    /\ req' = [req EXCEPT ![h] = [route |-> "/health", method |-> "GET"]]
    /\ started' = started + 1
    /\ IF token_cache.access_token = None
       THEN CallIdp(h) /\ UNCHANGED resp
       ELSE /\ pc' = [pc EXCEPT ![h] = "Health"]
            /\ loc' = [loc EXCEPT ![h] = NoLocals]
            /\ resp' = [resp EXCEPT ![h] = HealthResp]
    /\ UNCHANGED << now, token_cache, issued >>

\* lines 124-127
Health(h) ==
    /\ Serving
    /\ pc[h] = "idle"
    /\ started < MaxRequests
    /\ req' = [req EXCEPT ![h] = [route |-> "/health", method |-> "GET"]]
    /\ started' = started + 1
    /\ pc' = [pc EXCEPT ![h] = "Health"]
    /\ loc' = [loc EXCEPT ![h] = NoLocals]
    /\ resp' = [resp EXCEPT ![h] = HealthResp]
    /\ UNCHANGED << now, token_cache, issued >>

\* -------------------------------------------------------- get_wiz_token
\* line 37, second operand, and line 38: expires_at set and still ahead
L38(h) ==
    /\ Serving
    /\ pc[h] = "L38"
    /\ IF token_cache.expires_at # None /\ IsFresh(now, Val(token_cache.expires_at))
       THEN /\ pc' = [pc EXCEPT ![h] = "L40"]
            /\ loc' = [loc EXCEPT ![h].seen_for = token_cache.exp_for]
       ELSE CallIdp(h)
    /\ UNCHANGED << now, token_cache, issued, started, req, resp >>

\* line 40: return the cached token; lines 89-108 with it
L40(h) ==
    /\ Serving
    /\ pc[h] = "L40"
    /\ Forward(h, token_cache.access_token)
    /\ UNCHANGED << now, token_cache, issued, started, req >>

\* Mutant of lines 71-73: the exception is swallowed, get_wiz_token
\* returns None and the request is forwarded.
IdpFail_Swallowed(h) ==
    /\ Serving
    /\ pc[h] = "await_idp"
    /\ Forward(h, None)
    /\ UNCHANGED << now, token_cache, issued, started, req >>

\* Mutant of lines 71-73: a failed exchange is attempted a second time
\* before the exception is raised.
IdpFail_Retry(h) ==
    /\ Serving
    /\ pc[h] = "await_idp"
    /\ IF loc[h].idp_calls < 2
       THEN /\ loc' = [loc EXCEPT ![h].idp_calls = @ + 1]
            /\ UNCHANGED << pc, resp >>
       ELSE \E e \in IdpFailures :
                /\ Fail(h, "AuthFailed", e)
                /\ loc' = [loc EXCEPT ![h].idp_error = Some(e)]
    /\ UNCHANGED << now, token_cache, issued, started, req >>

\* Mutant of line 62: token_data.get('access_token', '') instead of the
\* subscript, so a body without access_token stores a fallback value.
IdpFail_Fallback(h) ==
    /\ Serving
    /\ pc[h] = "await_idp"
    /\ \E e \in IdpFailures :
        IF e = "no_access_token"
        THEN LET tok == [id |-> 0, at |-> now, expires_in |-> [kind |-> "absent", val |-> 0]] IN
             /\ loc' = [loc EXCEPT ![h].idp_error = Some(e), ![h].token_data = Some(tok)]
             /\ token_cache' = [token_cache EXCEPT !.access_token = Some(tok)]
             /\ pc' = [pc EXCEPT ![h] = "L65"]
             /\ UNCHANGED resp
        ELSE /\ Fail(h, "AuthFailed", e)
             /\ loc' = [loc EXCEPT ![h].idp_error = Some(e)]
             /\ UNCHANGED token_cache
    /\ UNCHANGED << now, issued, started, req >>

\* lines 46-62, 71-73: the exchange raises (timeout, bad status, bad body)
IdpFail(h) ==
    /\ Serving
    /\ pc[h] = "await_idp"
    /\ \E e \in IdpFailures :
        /\ Fail(h, "AuthFailed", e)
        /\ loc' = [loc EXCEPT ![h].idp_error = Some(e)]
    /\ UNCHANGED << now, token_cache, issued, started, req >>

\* lines 59-62: a success body with access_token; the token is stored
IdpOk(h) ==
    /\ Serving
    /\ pc[h] = "await_idp"
    /\ \E x \in ExpiresInValues :
        LET tok == [id |-> issued + 1, at |-> now, expires_in |-> x] IN
        /\ issued' = issued + 1
        /\ loc' = [loc EXCEPT ![h].token_data = Some(tok)]
        /\ token_cache' = [token_cache EXCEPT !.access_token = Some(tok)]
    /\ pc' = [pc EXCEPT ![h] = "L65"]
    /\ UNCHANGED << now, started, req, resp >>

\* lines 65-66: the expiry is stored, or the subtraction raises TypeError
L65(h) ==
    /\ Serving
    /\ pc[h] = "L65"
    /\ LET td == Val(loc[h].token_data) IN
        IF td.expires_in.kind = "str"
        THEN /\ Fail(h, "AuthFailed", "bad_expires_in")
             /\ UNCHANGED token_cache
        ELSE /\ token_cache' = [token_cache EXCEPT
                                  !.expires_at = Some(ExpiresAt(now, td.expires_in)),
                                  !.exp_for = Some(td.id),
                                  !.set_at = Some(now)]
             /\ pc' = [pc EXCEPT ![h] = "L69"]
             /\ UNCHANGED resp
    /\ loc' = [loc EXCEPT ![h].token_data = None]
    /\ UNCHANGED << now, issued, started, req >>

\* line 69: return token_cache['access_token']; lines 89-108 with it
L69(h) ==
    /\ Serving
    /\ pc[h] = "L69"
    /\ Forward(h, token_cache.access_token)
    /\ UNCHANGED << now, token_cache, issued, started, req >>

\* -------------------------------------------------------- proxy_graphql
\* lines 103-118: any HTTP answer of the upstream is relayed
UpReturn(h) ==
    /\ Serving
    /\ pc[h] = "await_up"
    /\ \E u \in UpstreamResponses :
        /\ loc' = [loc EXCEPT ![h].up = Some(u), ![h].seen_for = None,
                              ![h].bearer = None, ![h].sent_body = None]
        /\ resp' = [resp EXCEPT ![h] = RelayResp(u)]
    /\ pc' = [pc EXCEPT ![h] = "Relayed"]
    /\ UNCHANGED << now, token_cache, issued, started, req >>

\* Mutant of lines 120-122: a failed forward evicts the cached token.
UpFail_Evicts(h) ==
    /\ Serving
    /\ pc[h] = "await_up"
    /\ Fail(h, "UpstreamFailed", "upstream_timeout")
    /\ loc' = [loc EXCEPT ![h].seen_for = None, ![h].bearer = None, ![h].sent_body = None]
    /\ token_cache' = EmptyCache
    /\ UNCHANGED << now, issued, started, req >>

\* lines 103-108, 120-122: network failure or the 60 s timeout
UpFail(h) ==
    /\ Serving
    /\ pc[h] = "await_up"
    /\ Fail(h, "UpstreamFailed", "upstream_timeout")
    /\ loc' = [loc EXCEPT ![h].seen_for = None, ![h].bearer = None, ![h].sent_body = None]
    /\ UNCHANGED << now, token_cache, issued, started, req >>

\* The states in which a request has been answered.
Terminal == {"Relayed", "AuthFailed", "UpstreamFailed", "Preflight", "AutoOptions", "Health"}

\* The response has been sent; the thread serves the next request.
Finish(h) ==
    /\ Serving
    /\ pc[h] \in Terminal
    /\ pc' = [pc EXCEPT ![h] = "idle"]
    /\ req' = [req EXCEPT ![h] = NoRequest]
    /\ loc' = [loc EXCEPT ![h] = NoLocals]
    /\ resp' = [resp EXCEPT ![h] = NoResponse]
    /\ UNCHANGED << now, token_cache, issued, started >>

Next ==
    \/ Startup
    \/ Tick
    \/ \E h \in Handlers : ReceivePost(h)
    \/ \E h \in Handlers : Preflight(h)
    \/ \E h \in Handlers : AutoOptions(h)
    \/ \E h \in Handlers : Health(h)
    \/ \E h \in Handlers : L38(h)
    \/ \E h \in Handlers : L40(h)
    \/ \E h \in Handlers : IdpFail(h)
    \/ \E h \in Handlers : IdpOk(h)
    \/ \E h \in Handlers : L65(h)
    \/ \E h \in Handlers : L69(h)
    \/ \E h \in Handlers : UpReturn(h)
    \/ \E h \in Handlers : UpFail(h)
    \/ \E h \in Handlers : Finish(h)

Spec == Init /\ [][Next]_vars

\* The outbound calls eventually return or hit their timeouts (30 s and
\* 60 s), and a running handler thread is eventually scheduled.
HandlerStep(h) == L38(h) \/ L40(h) \/ L65(h) \/ L69(h)
IdpReturns(h) == IdpFail(h) \/ IdpOk(h)
UpReturns(h) == UpReturn(h) \/ UpFail(h)

Fairness ==
    \A h \in Handlers :
        /\ WF_vars(HandlerStep(h))
        /\ WF_vars(IdpReturns(h))
        /\ WF_vars(UpReturns(h))

FairSpec == Init /\ [][Next]_vars /\ Fairness

\* ------------------------------------------------------------ properties
\* The lifetime the provider reported, 3600 s when it reported none.
Lifetime(x) == IF x.kind = "absent" THEN 3600 ELSE x.val

\* The token the cache holds, and whether its own expiry is the one stored.
CachedTok == Val(token_cache.access_token)
PairStored ==
    /\ token_cache.access_token # None
    /\ token_cache.exp_for = Some(CachedTok.id)

\* The time T at which the cached token was set: the time its expiry was
\* stored, or its issuance time while only line 62 has run for it.
CachedSetAt == IF PairStored THEN Val(token_cache.set_at) ELSE CachedTok.at

\* The lines of get_wiz_token that return a token.
Returning(h) == pc[h] \in {"L40", "L69"} /\ pc'[h] \notin {"L40", "L69"}

\* The validity check of lines 37-38 is passed / failed by handler h.
CacheHit(h) == pc[h] = "L38" /\ pc'[h] = "L40"
CacheMiss(h) ==
    \/ pc[h] = "idle" /\ pc'[h] = "await_idp"
    \/ pc[h] = "L38" /\ pc'[h] = "await_idp"

\* C1 (Cache validity): a token set at time T with lifetime L is served
\* from the cache at every query time in [T, T + L - 60) and is not served
\* from the cache at any query time >= T + L - 60.
C1_CacheValidity ==
    [][\A h \in Handlers :
        /\ (CacheHit(h) /\ CachedTok.expires_in.kind # "str") =>
             now < CachedSetAt + Lifetime(CachedTok.expires_in) - 60
        /\ (pc[h] = "L38" /\ pc'[h] # "L38" /\ PairStored
              /\ now < Val(token_cache.set_at) + Lifetime(CachedTok.expires_in) - 60)
             => CacheHit(h)]_vars

\* The bodies line 122 produces.
ErrorBodies ==
    {ErrorBody(e) : e \in IdpFailures \cup {"bad_expires_in", "bad_request", "upstream_timeout"}}

\* Handler h's token acquisition fails in this step.
AcquisitionFails(h) ==
    \/ pc[h] = "await_idp" /\ pc'[h] \notin {"await_idp", "L65"}
    \/ pc[h] = "L65" /\ pc'[h] \notin {"L65", "L69"}

\* C2 (No-leak on failure): a POST whose token acquisition fails sends
\* nothing upstream and is answered 500 with an error body.
C2_NoLeakOnFailure ==
    /\ [][\A h \in Handlers :
            AcquisitionFails(h) =>
                /\ pc'[h] = "AuthFailed"
                /\ resp'[h].status = 500
                /\ resp'[h].body \in ErrorBodies
                /\ loc'[h].sent_body = None
                /\ loc'[h].bearer = None]_vars
    /\ [][\A h \in Handlers :
            pc[h] = "AuthFailed" => pc'[h] \in {"AuthFailed", "idle"}]_vars

C2_Witness ==
    \E h \in Handlers :
        /\ pc[h] = "AuthFailed"
        /\ req[h].method = "POST"
        /\ resp[h].status = 500
        /\ resp[h].body = ErrorBody("http_401")

\* C3 (Pass-through fidelity): an upstream HTTP response with status S and
\* body B is relayed with status S and body B, whatever S is.
C3_PassThrough ==
    \A h \in Handlers :
        loc[h].up # None =>
            /\ pc[h] = "Relayed"
            /\ resp[h].status = Val(loc[h].up).status
            /\ resp[h].body = Val(loc[h].up).body

C3_Witness ==
    \E h \in Handlers :
        /\ pc[h] = "Relayed"
        /\ loc[h].up = Some([status |-> 500, body |-> "<html>"])
        /\ resp[h].status = 500

\* C4 (Single acquisition per miss window): the number of identity-provider
\* calls made by N concurrent requests on a miss is not N.
C4_SingleAcquisition ==
    NumHandlers > 1 =>
        Cardinality({h \in Handlers : pc[h] = "await_idp"}) < NumHandlers

\* C5 (No torn cache value): the token a handler returns from the cache and
\* the expiry it compared were written by one acquisition.
C5_NoTornValue ==
    [][\A h \in Handlers :
        (pc[h] = "L40" /\ pc'[h] # "L40") =>
            loc[h].seen_for = Some(CachedTok.id)]_vars

\* The token's own expiry: issuance time + lifetime - 60 s.
OwnExpiry(tok) == tok.at + Lifetime(tok.expires_in) - 60

\* C6: whenever get_wiz_token returns a token, from the cache or just
\* acquired, the current time is strictly before that token's expiry.
C6_NeverPastExpiry ==
    [][\A h \in Handlers :
        Returning(h) => now < OwnExpiry(CachedTok)]_vars

\* C7: every response of proxy_graphql carries
\* Access-Control-Allow-Origin: *, whatever the outcome.
C7_AlwaysCors ==
    \A h \in Handlers :
        pc[h] \in {"Preflight", "Relayed", "AuthFailed", "UpstreamFailed"} =>
            ACAO \in resp[h].headers

\* No outbound call is started and the cache is not written in this step.
NoCallNoWrite ==
    /\ token_cache' = token_cache
    /\ issued' = issued
    /\ \A g \in Handlers :
        /\ pc'[g] = "await_idp" => pc[g] = "await_idp"
        /\ pc'[g] = "await_up" => pc[g] = "await_up"

\* C8 (Preflight isolation): OPTIONS on /graphql is answered 200 with the
\* three CORS headers, calls neither the identity provider nor the
\* upstream and leaves the cache as it is, in any cache state.
C8_PreflightIsolation ==
    /\ [](\A h \in Handlers :
            req[h] = [route |-> "/graphql", method |-> "OPTIONS"] =>
                /\ pc[h] = "Preflight"
                /\ resp[h].status = 200
                /\ {ACAO, ACAM, ACAH} \subseteq resp[h].headers)
    /\ [][\A h \in Handlers :
            (pc[h] # "Preflight" /\ pc'[h] = "Preflight") => NoCallNoWrite]_vars

C8_Witness ==
    \E h \in Handlers :
        /\ pc[h] = "Preflight"
        /\ resp[h].status = 200
        /\ token_cache.expires_at # None
        /\ now >= Val(token_cache.expires_at)

\* C9 (Acquisition only on a cache miss): a request calls the identity
\* provider only if the cache held no token, or no expiry, or the time was
\* not strictly before expires_at, when the request checked it; a request
\* that found the cache valid calls nobody but the upstream, with the
\* token the cache holds.
C9_AcquireOnlyOnMiss ==
    /\ [][\A h \in Handlers :
            (pc[h] # "await_idp" /\ pc'[h] = "await_idp") =>
                \/ token_cache.access_token = None
                \/ token_cache.expires_at = None
                \/ ~ (now < Val(token_cache.expires_at))]_vars
    /\ [][\A h \in Handlers :
            (pc[h] = "L38" /\ pc'[h] # "L38"
               /\ token_cache.expires_at # None
               /\ now < Val(token_cache.expires_at)) => pc'[h] = "L40"]_vars
    /\ [][\A h \in Handlers :
            (pc[h] = "L40" /\ pc'[h] # "L40") =>
                /\ pc'[h] \in {"await_up", "UpstreamFailed"}
                /\ issued' = issued
                /\ pc'[h] = "await_up" => loc'[h].bearer = token_cache.access_token]_vars

C9_Witness ==
    \E h \in Handlers :
        /\ pc[h] = "await_up"
        /\ loc[h].seen_for # None
        /\ loc[h].bearer = token_cache.access_token
        /\ now < Val(token_cache.expires_at)
        /\ \A g \in Handlers : pc[g] # "await_idp"

\* The states of a POST request.
TokenResolution == {"L38", "L40", "await_idp", "L65", "L69"}
Forwarding == {"await_up"}
PostTerminal == {"Relayed", "AuthFailed", "UpstreamFailed"}
InFlight == TokenResolution \cup Forwarding

\* C10 (Per-request state machine): a POST goes through TokenResolution,
\* enters Forwarding only with a token get_wiz_token returned, and, the
\* outbound calls returning or timing out, ends in exactly one of
\* Relayed, AuthFailed, UpstreamFailed with exactly one response; after
\* any failure the handler serves again.
C10_StateMachine ==
    /\ [][\A h \in Handlers :
            /\ (pc[h] = "idle" /\ req'[h].method = "POST") => pc'[h] \in TokenResolution
            /\ (pc[h] \in InFlight /\ pc'[h] \notin InFlight) =>
                    (pc'[h] \in PostTerminal /\ resp'[h] # NoResponse)
            /\ (pc[h] \notin Forwarding /\ pc'[h] \in Forwarding) =>
                    (pc[h] \in {"L40", "L69"} /\ loc'[h].bearer # None)
            /\ pc[h] \in PostTerminal =>
                    \/ (pc'[h] = pc[h] /\ resp'[h] = resp[h])
                    \/ pc'[h] = "idle"]_vars
    /\ [](\A h \in Handlers :
            /\ pc[h] \in InFlight => resp[h] = NoResponse
            /\ pc[h] \in PostTerminal => resp[h] # NoResponse)
    /\ \A h \in Handlers : (pc[h] \in InFlight) ~> (pc[h] \in PostTerminal)

C10_Witness ==
    \E h \in Handlers :
        /\ pc[h] = "UpstreamFailed"
        /\ resp[h].status = 500
        /\ started = MaxRequests

\* The upstream bodies that are JSON documents.
JsonBodies == {"{data}", "{errors}"}

\* Handler h's forward ends in this step without a JSON answer: the call
\* raised (network failure, timeout) or the answer's body is not JSON.
ForwardEndsBadly(h) ==
    /\ pc[h] = "await_up"
    /\ pc'[h] # "await_up"
    /\ \/ loc'[h].up = None
       \/ Val(loc'[h].up).body \notin JsonBodies

\* C11 (UpstreamError handling): a forward that ends in a network failure,
\* a timeout or a non-JSON upstream response is answered with a 5xx status,
\* and the request is not sent upstream again.
C11_UpstreamError ==
    [][\A h \in Handlers :
        /\ ForwardEndsBadly(h) => resp'[h].status >= 500
        /\ (pc[h] = "await_up" /\ pc'[h] # "await_up") =>
                pc'[h] \in {"Relayed", "UpstreamFailed"}
        /\ pc[h] \in {"Relayed", "UpstreamFailed"} =>
                pc'[h] \in {pc[h], "idle"}]_vars

\* C12 (No internal retry): one inbound POST makes at most one call to the
\* identity provider and at most one call to the upstream, whatever their
\* outcomes; once it has failed, the request makes no further call.
C12_NoInternalRetry ==
    /\ [](\A h \in Handlers : loc[h].idp_calls <= 1 /\ loc[h].up_calls <= 1)
    /\ [][\A h \in Handlers :
            pc[h] \in {"AuthFailed", "UpstreamFailed"} =>
                \/ loc'[h] = loc[h] /\ pc'[h] = pc[h]
                \/ pc'[h] = "idle"]_vars
    /\ [][\A h \in Handlers :
            /\ (pc[h] # "await_idp" /\ pc'[h] = "await_idp") =>
                    loc'[h].idp_calls = loc[h].idp_calls + 1
            /\ (pc[h] # "await_up" /\ pc'[h] = "await_up") =>
                    loc'[h].up_calls = loc[h].up_calls + 1]_vars

C12_Witness ==
    \E h \in Handlers :
        /\ pc[h] = "UpstreamFailed"
        /\ resp[h].body = ErrorBody("upstream_timeout")
        /\ loc[h].idp_calls = 1
        /\ loc[h].up_calls = 1

\* C13 (Startup gate): with the client id or the client secret absent the
\* process exits with a non-zero status and never handles a request nor
\* calls the identity provider; with both present it enters the serving
\* state and stays there.
C13_StartupGate ==
    /\ [][proc.state = "starting" /\ proc' # proc =>
            IF WIZ_CLIENT_ID = "None" \/ WIZ_CLIENT_SECRET = "None"
            THEN proc'.state = "exited" /\ proc'.exit_status # None
                    /\ Val(proc'.exit_status) # 0
            ELSE (WIZ_CLIENT_ID = "set" /\ WIZ_CLIENT_SECRET = "set")
                    => proc'.state = "serving"]_vars
    /\ [][proc.state = "serving" => proc'.state = "serving"]_vars
    /\ [][proc.state = "exited" => proc' = proc]_vars
    /\ []((WIZ_CLIENT_ID = "None" \/ WIZ_CLIENT_SECRET = "None") =>
            /\ started = 0
            /\ issued = 0
            /\ \A h \in Handlers : pc[h] = "idle" /\ loc[h].idp_calls = 0)
    /\ [](proc.state # "serving" => started = 0)

C13_Witness ==
    /\ WIZ_CLIENT_ID = "set"
    /\ WIZ_CLIENT_SECRET = "None"
    /\ proc = [state |-> "exited", exit_status |-> Some(1)]

\* C14 (Liveness probe isolation): GET /health is answered 200 with the
\* fixed healthy body in every cache state and whatever the identity
\* provider and the upstream do; it calls neither and leaves the cache
\* as it is.
C14_HealthIsolation ==
    /\ [](\A h \in Handlers :
            req[h] = [route |-> "/health", method |-> "GET"] =>
                /\ pc[h] = "Health"
                /\ resp[h].status = 200
                /\ resp[h].body = "{status: healthy}"
                /\ loc[h].idp_calls = 0
                /\ loc[h].up_calls = 0)
    /\ [][\A h \in Handlers :
            (pc[h] # "Health" /\ pc'[h] = "Health") => NoCallNoWrite]_vars
    /\ [][\A h \in Handlers :
            pc[h] = "Health" => pc'[h] \in {"Health", "idle"}]_vars

C14_Witness ==
    \E h, g \in Handlers :
        /\ pc[h] = "Health"
        /\ resp[h] = HealthResp
        /\ pc[g] = "AuthFailed"
        /\ resp[g].body = ErrorBody("timeout")
        /\ token_cache = EmptyCache

\* The tokens the identity provider has returned so far.
IssuedTo(tok) == tok.id \in 1 .. issued /\ tok.at <= now

\* C15 (Empty start and ordering): the process starts with no token and no
\* expiry in the cache; a request is in flight upstream only after the
\* identity provider has returned a token, and the bearer it carries is a
\* token the identity provider returned earlier, never an absent value.
C15_EmptyStartOrdering ==
    /\ (token_cache.access_token = None /\ token_cache.expires_at = None)
    /\ [](\A h \in Handlers :
            pc[h] = "await_up" =>
                /\ issued >= 1
                /\ loc[h].bearer # None
                /\ IssuedTo(Val(loc[h].bearer)))
    /\ [](token_cache.access_token # None => IssuedTo(CachedTok))

C15_Witness ==
    \E h \in Handlers :
        /\ pc[h] = "await_up"
        /\ started = 1
        /\ issued = 1
        /\ loc[h].idp_calls = 1
        /\ loc[h].bearer # None
        /\ Val(loc[h].bearer).id = 1

\* The routes served by proxy_graphql.
ProxyRoutes == {"/graphql", "/introspection"}

\* C16 (Introspection alias): a request to /introspection is handled as
\* the same request to /graphql is, for POST and for the OPTIONS
\* preflight: same states, same response, same calls, same cache update.
C16_IntrospectionAlias ==
    /\ [](\A h \in Handlers :
            (req[h].route \in ProxyRoutes /\ req[h].method = "OPTIONS") =>
                /\ pc[h] = "Preflight"
                /\ resp[h] = PreflightResp)
    /\ [](\A h \in Handlers :
            (req[h].route \in ProxyRoutes /\ req[h].method = "POST") =>
                pc[h] \in InFlight \cup PostTerminal)
    /\ [][\A h \in Handlers :
            (pc[h] = "idle" /\ req'[h].route \in ProxyRoutes /\ req'[h].method = "POST") =>
                /\ pc'[h] = IF token_cache.access_token = None THEN "await_idp" ELSE "L38"
                /\ token_cache' = token_cache]_vars

\* Handler h runs one of the two writes of a token acquisition in this
\* step: line 62 (the token) or line 66 (its expiry).
AcquisitionWrites(h) ==
    \/ pc[h] = "await_idp" /\ pc'[h] = "L65"
    \/ pc[h] = "L65" /\ pc'[h] = "L69"

\* C17 (Cache lifecycle): only a token acquisition writes the cache; the
\* forwarding step, the preflight and the health probe leave it as it is;
\* a cache that holds a token is never emptied, only overwritten in place,
\* and it holds at most one token.
C17_CacheLifecycle ==
    /\ [][token_cache' # token_cache => \E h \in Handlers : AcquisitionWrites(h)]_vars
    /\ [][\A h \in Handlers :
            (\/ pc[h] \in {"L40", "L69", "await_up"} /\ pc'[h] # pc[h]
             \/ pc[h] = "idle" /\ pc'[h] \in {"Preflight", "AutoOptions", "Health"})
                => token_cache' = token_cache]_vars
    /\ [][/\ token_cache.access_token # None => token_cache'.access_token # None
          /\ token_cache.expires_at # None => token_cache'.expires_at # None]_vars
    /\ [](Len(token_cache.access_token) <= 1 /\ Len(token_cache.expires_at) <= 1)

C17_Witness ==
    /\ token_cache.access_token # None
    /\ CachedTok.id = 2
    /\ PairStored
    /\ \E h \in Handlers : pc[h] = "UpstreamFailed" /\ loc[h].up_calls = 1

\* C18 (Opaque request body): every POST whose token resolution succeeds
\* is sent upstream with the caller's body, whatever the body is, valid
\* JSON or not.
C18_OpaqueBody ==
    [][\A h \in Handlers :
        (pc[h] \in {"L40", "L69"} /\ pc'[h] # pc[h]) =>
            /\ pc'[h] = "await_up"
            /\ loc'[h].body # None
            /\ loc'[h].sent_body = loc'[h].body]_vars

\* The identity provider answered handler h's exchange with a success
\* status and a JSON body that has no access_token.
NoAccessToken(h) == loc[h].idp_error = Some("no_access_token")

\* C19 (Missing access_token): a success answer of the identity provider
\* without access_token ends the request in AuthFailed with a 500, sends
\* nothing upstream and stores no token in the cache.
C19_MissingAccessToken ==
    /\ [](\A h \in Handlers :
            NoAccessToken(h) =>
                /\ pc[h] = "AuthFailed"
                /\ resp[h].status = 500
                /\ loc[h].up_calls = 0
                /\ loc[h].bearer = None)
    /\ [][\A h \in Handlers :
            (~ NoAccessToken(h) /\ NoAccessToken(h)') => token_cache' = token_cache]_vars
    /\ [](token_cache.access_token # None => CachedTok.id >= 1)

C19_Witness ==
    \E h \in Handlers :
        /\ NoAccessToken(h)
        /\ pc[h] = "AuthFailed"
        /\ resp[h] = ErrorResp("no_access_token")
        /\ token_cache.access_token # None

\* Handler h stores the expiry of the token it acquired (line 66).
StoresExpiry(h) == pc[h] = "L65" /\ pc'[h] = "L69"

\* C20 (Default lifetime): an acquisition whose answer has no expires_in
\* stores the expiry T + 3540, and one whose answer has expires_in = L
\* stores T + L - 60, T being the time at which the expiry is stored.
C20_DefaultLifetime ==
    [][\A h \in Handlers :
        StoresExpiry(h) =>
            LET x == Val(loc[h].token_data).expires_in IN
            /\ token_cache'.expires_at # None
            /\ x.kind = "absent" => Val(token_cache'.expires_at) = now + 3540
            /\ x.kind = "int" => Val(token_cache'.expires_at) = now + x.val - 60]_vars

C20_Witness ==
    /\ PairStored
    /\ CachedTok.expires_in.kind = "absent"
    /\ now = 1
    /\ token_cache.set_at = Some(1)
    /\ token_cache.expires_at = Some(3541)

\* Line 62 has run for the acquisition handler h is in: the token of the
\* provider's answer is in the cache's access_token field.
WroteToken(h) == loc[h].token_data # None

\* C21 (Failed acquisition leaves the cache unchanged): whichever way an
\* acquisition fails (timeout, error status, body that is not JSON, body
\* without access_token, unusable expires_in), it has written neither
\* access_token nor expires_at: the cache fields are the ones it found.
C21_FailureLeavesCache ==
    [][\A h \in Handlers :
        AcquisitionFails(h) =>
            /\ ~ WroteToken(h)
            /\ token_cache' = token_cache]_vars

====
